---- MODULE Spec2Model ----
(***************************************************************************)
(* Model of scale-down-ecs-instances.py: the script that shrinks an ECS    *)
(* cluster by draining and terminating its oldest container instances.     *)
(*                                                                         *)
(* The remote state (Auto Scaling group, ECS cluster membership) is kept   *)
(* in variables; every boto3 call is one step whose outcome is either a    *)
(* success response or a raised client error.  ECS calls are keyed by the  *)
(* container-instance ARN, Auto Scaling calls by the EC2 instance id.      *)
(* Program positions are named after the function and source line.         *)
(***************************************************************************)
EXTENDS Integers, Sequences, FiniteSets, TLC

\* ------------------------------------------------------------------ bounds
MaxNodes == 2      \* registered container instances (main / drain / terminate)
MaxReg == 2        \* distinct registeredAt values (main / drain / terminate)
MaxTasks == 1      \* runningTasksCount of a node at the start
MaxCap == 3        \* DesiredCapacity and desired_count range over 0..MaxCap
MaxRuns == 2       \* invocations of the script against the same remote state
SelNodes == 5      \* membership size when get_instances_to_remove is applied alone
SelTimes == 5      \* registeredAt values when get_instances_to_remove is applied alone
MaxChange == 2     \* desired_change when get_instances_to_remove is applied alone

\* ------------------------------------------------------- program constants
Retries == 30      \* retries = 30

VARIABLES
  entry,            \* which function of the module was invoked
  run,              \* number of the current invocation
  pc,               \* program position
  error,            \* exception that ended the invocation, "none" otherwise
  errorAt,          \* program position at which it was raised
  asgCount,         \* Auto Scaling groups matching asg_name
  desiredCapacity,  \* the group's DesiredCapacity
  terminated,       \* EC2 instance ids terminated in the group
  nodes,            \* ECS container instances, in the order the API returns them
  desired_count,    \* argument of main
  desired_change,   \* local of main / get_change / get_instances_to_remove
  container_instance_arns, \* local of get_instances_to_remove
  computed,         \* get_change reached line 30 in this invocation
  instances,        \* the list handed to drain_instances / terminate_instance
  retries,          \* local of drain_instances
  idx,              \* position of the for loop of terminate_instance
  calls,            \* mutating remote calls issued in this invocation
  listed,           \* list_container_instances was issued in this invocation
  polls,            \* describe_container_instances polls issued by drain_instances
  pollBusy,         \* some poll saw a described instance with running tasks
  drained,          \* the polling loop left through break
  remoteFailed,     \* some remote call of this invocation raised
  start,            \* remote state at the start of this invocation
  prev              \* outcome of the previous invocation

ctl == <<entry, run, pc, error, errorAt>>
remote == <<asgCount, desiredCapacity, terminated, nodes>>
locals == <<desired_count, desired_change, container_instance_arns, computed, instances, retries, idx>>
hist == <<calls, listed, polls, pollBusy, drained, remoteFailed, start, prev>>
vars == <<ctl, remote, locals, hist>>

\* -------------------------------------------------------------- identifiers
Arn(i) == <<"arn", i>>
Ec2(i) == <<"ec2", i>>

Node(i, reg, tasks) ==
  [containerInstanceArn |-> Arn(i), ec2InstanceId |-> Ec2(i),
   registeredAt |-> reg, runningTasksCount |-> tasks, status |-> "ACTIVE"]

\* The membership list of k nodes with the registration times and task counts f.
NodeList(k, f) == [i \in 1..k |-> Node(i, f[i][1], f[i][2])]

Range(s) == { s[i] : i \in 1..Len(s) }

Min(a, b) == IF a <= b THEN a ELSE b
Max(a, b) == IF a >= b THEN a ELSE b

\* ------------------------------------------------------------ module names
\* The names bound at module level: the two imports, the two clients and the
\* five functions.  A call of any other name raises NameError.
ModuleGlobals ==
  {"argparse", "boto3", "autoscaling", "ecs", "main", "get_change",
   "get_instances_to_remove", "drain_instances", "terminate_instance"}

NameDefined(name) == name \in ModuleGlobals

\* ------------------------------------------------------------- get_change
\* What get_change does once describe_auto_scaling_groups has answered with
\* n groups, the first of capacity cap: raise, exit() or return the change.
get_change_ExitWhenNotPositive(n, cap, count) ==
  IF n = 0 THEN [kind |-> "raise", error |-> "ValueError_NotFound", change |-> 0]
  ELSE IF n > 1 THEN [kind |-> "raise", error |-> "ValueError_Ambiguous", change |-> 0]
  ELSE IF cap - count <= 0 THEN [kind |-> "exit", error |-> "none", change |-> cap - count]
  ELSE [kind |-> "return", error |-> "none", change |-> cap - count]

get_change_ReturnsZero(n, cap, count) ==
  IF n = 0 THEN [kind |-> "raise", error |-> "ValueError_NotFound", change |-> 0]
  ELSE IF n > 1 THEN [kind |-> "raise", error |-> "ValueError_Ambiguous", change |-> 0]
  ELSE IF cap - count < 0
    THEN [kind |-> "raise", error |-> "ValueError_FewerInstances", change |-> cap - count]
  ELSE [kind |-> "return", error |-> "none", change |-> cap - count]

get_change_NoUnderCapacityCheck(n, cap, count) ==
  IF n = 0 THEN [kind |-> "raise", error |-> "ValueError_NotFound", change |-> 0]
  ELSE IF n > 1 THEN [kind |-> "raise", error |-> "ValueError_Ambiguous", change |-> 0]
  ELSE IF cap - count = 0 THEN [kind |-> "exit", error |-> "none", change |-> 0]
  ELSE [kind |-> "return", error |-> "none", change |-> cap - count]

get_change(n, cap, count) ==
  IF n = 0 THEN [kind |-> "raise", error |-> "ValueError_NotFound", change |-> 0]
  ELSE IF n > 1 THEN [kind |-> "raise", error |-> "ValueError_Ambiguous", change |-> 0]
  ELSE IF cap - count < 0
    THEN [kind |-> "raise", error |-> "ValueError_FewerInstances", change |-> cap - count]
  ELSE IF cap - count = 0
    THEN [kind |-> "exit", error |-> "none", change |-> 0]
  ELSE [kind |-> "return", error |-> "none", change |-> cap - count]

\* ------------------------------------------------ get_instances_to_remove
\* sorted(raw, key=registeredAt): a stable sort, equal keys keep their order.
RECURSIVE InsertByRegisteredAt(_, _)
InsertByRegisteredAt(s, x) ==
  IF s = <<>> THEN <<x>>
  ELSE IF s[Len(s)].registeredAt <= x.registeredAt THEN Append(s, x)
  ELSE Append(InsertByRegisteredAt(SubSeq(s, 1, Len(s) - 1), x), s[Len(s)])

RECURSIVE sorted(_)
sorted(s) ==
  IF s = <<>> THEN <<>>
  ELSE InsertByRegisteredAt(sorted(SubSeq(s, 1, Len(s) - 1)), s[Len(s)])

\* s[:k] with Python's meaning of a negative k.
SliceTo(s, k) ==
  IF k >= 0 THEN SubSeq(s, 1, Min(k, Len(s)))
  ELSE SubSeq(s, 1, Max(Len(s) + k, 0))

\* The same without the sort: the first entries in the order the API lists them.
get_instances_to_remove_Unsorted(raw, change) ==
  LET instances_to_remove == SliceTo(raw, change)
  IN [i \in 1..Len(instances_to_remove) |-> instances_to_remove[i].ec2InstanceId]

\* The list get_instances_to_remove returns for the described instances raw.
get_instances_to_remove(raw, change) ==
  LET sorted_instances == sorted(raw)
      instances_to_remove == SliceTo(sorted_instances, change)
  IN [i \in 1..Len(instances_to_remove) |-> instances_to_remove[i].ec2InstanceId]

\* ------------------------------------------------------------ remote calls
\* The container instances an ECS call names: ECS resolves each identifier
\* against the container-instance ARN.
Named(ids) == { i \in 1..Len(nodes) : nodes[i].containerInstanceArn \in Range(ids) }

\* describe_container_instances(containerInstances=ids)['containerInstances']
Described(ids) == SelectSeq(nodes, LAMBDA n : n.containerInstanceArn \in Range(ids))

\* update_container_instances_state(containerInstances=ids, status="DRAINING")
SetDraining(ids) ==
  [i \in 1..Len(nodes) |->
     IF i \in Named(ids) THEN [nodes[i] EXCEPT !.status = "DRAINING"] ELSE nodes[i]]

\* terminate_instance_in_auto_scaling_group can succeed only for an EC2
\* instance id of a live instance of the group whose capacity can go down.
CanTerminate(id) ==
  /\ \E i \in 1..Len(nodes) : nodes[i].ec2InstanceId = id
  /\ id \notin terminated
  /\ desiredCapacity > 0

\* --------------------------------------------------------------- start-up
NoPrev == [error |-> "none", errorAt |-> "none", instances |-> <<>>, polls |-> 0]

Snapshot(cap, ns) == [desiredCapacity |-> cap, status |-> [i \in 1..Len(ns) |-> ns[i].status]]

\* The locals and the per-invocation history at the start of an invocation.
Fresh ==
  /\ error = "none" /\ errorAt = "none"
  /\ container_instance_arns = <<>>
  /\ computed = FALSE
  /\ retries = 0 /\ idx = 1
  /\ calls = <<>> /\ listed = FALSE /\ polls = 0
  /\ pollBusy = FALSE /\ drained = FALSE /\ remoteFailed = FALSE

\* python scale-down-ecs-instances.py cluster_name asg_name desired_count
InitMain ==
  /\ entry = "main" /\ pc = "main_8"
  /\ asgCount \in 0..2
  /\ desiredCapacity \in 0..MaxCap
  /\ desired_count \in 0..MaxCap
  /\ \E k \in 0..MaxNodes :
       \E f \in [1..k -> (1..MaxReg) \X (0..MaxTasks)] : nodes = NodeList(k, f)
  /\ desired_change = 0 /\ instances = <<>>

\* get_instances_to_remove(cluster_name, desired_change) applied on its own.
InitSelect ==
  /\ entry = "get_instances_to_remove" /\ pc = "select_42"
  /\ asgCount = 1 /\ desiredCapacity = 0 /\ desired_count = 0
  /\ \E k \in 0..SelNodes :
       \E f \in [1..k -> (1..SelTimes) \X {0}] : nodes = NodeList(k, f)
  /\ desired_change \in 1..MaxChange /\ instances = <<>>

\* drain_instances(cluster_name, instances) applied on its own to a list of
\* container-instance ARNs or EC2 instance ids.
InitDrain ==
  /\ entry = "drain_instances" /\ pc = "drain_63"
  /\ asgCount = 1 /\ desiredCapacity = 0 /\ desired_count = 0
  /\ \E k \in 0..MaxNodes :
       \E f \in [1..k -> {1} \X (0..MaxTasks)] : nodes = NodeList(k, f)
  /\ \E n \in 0..MaxNodes :
       instances \in [1..n -> { Arn(i) : i \in 1..Len(nodes) }
                               \cup { Ec2(i) : i \in 1..Len(nodes) }]
  /\ desired_change = 0

\* terminate_instance(instances) applied on its own to a list of EC2 ids.
InitTerminate ==
  /\ entry = "terminate_instance" /\ pc = "terminate_94"
  /\ asgCount = 1 /\ desiredCapacity \in 0..MaxCap /\ desired_count = 0
  /\ \E k \in 0..MaxNodes :
       \E f \in [1..k -> {1} \X {0}] : nodes = NodeList(k, f)
  /\ \E n \in 0..MaxNodes : instances \in [1..n -> { Ec2(i) : i \in 1..MaxNodes }]
  /\ desired_change = 0

Init ==
  /\ run = 1 /\ terminated = {} /\ prev = NoPrev
  /\ Fresh
  /\ (InitMain \/ InitSelect \/ InitDrain \/ InitTerminate)
  /\ start = Snapshot(desiredCapacity, nodes)

\* ------------------------------------------------------------ control flow
\* An uncaught exception ends the process with a non-zero status.
Raise(e) == /\ pc' = "Fatal" /\ error' = e /\ errorAt' = pc

\* A remote call raised: botocore's ClientError goes up uncaught.
RaiseClientError == /\ Raise("ClientError") /\ remoteFailed' = TRUE

\* A function returns: to the next line of main, or to whoever applied it.
ReturnTo(next) == /\ pc' = (IF entry = "main" THEN next ELSE "Returned")
                  /\ UNCHANGED <<error, errorAt>>

\* ------------------------------------------------------------------- main
\* main line 8 with get_change lines 22-39: one describe_auto_scaling_groups
\* call, then raise, exit() or return desired_change to line 10.
Main_GetChange ==
  /\ pc = "main_8"
  /\ \E ok \in BOOLEAN :
       IF ok
       THEN LET r == get_change(asgCount, desiredCapacity, desired_count)
            IN /\ computed' = (asgCount = 1)
               /\ desired_change' = r.change
               /\ IF r.kind = "raise" THEN Raise(r.error)
                  ELSE /\ pc' = (IF r.kind = "exit" THEN "Done" ELSE "select_42")
                       /\ UNCHANGED <<error, errorAt>>
               /\ UNCHANGED remoteFailed
       ELSE /\ RaiseClientError
            /\ UNCHANGED <<computed, desired_change>>
  /\ UNCHANGED <<entry, run, remote, desired_count, container_instance_arns,
                 instances, retries, idx, calls, listed, polls, pollBusy,
                 drained, start, prev>>

\* get_instances_to_remove lines 42-44: list_container_instances.
Select_List ==
  /\ pc = "select_42"
  /\ listed' = TRUE
  /\ \E ok \in BOOLEAN :
       IF ok
       THEN /\ container_instance_arns' =
                 [i \in 1..Len(nodes) |-> nodes[i].containerInstanceArn]
            /\ pc' = "select_46"
            /\ UNCHANGED <<error, errorAt, remoteFailed>>
       ELSE /\ RaiseClientError
            /\ UNCHANGED container_instance_arns
  /\ UNCHANGED <<entry, run, remote, desired_count, desired_change, computed,
                 instances, retries, idx, calls, polls, pollBusy, drained,
                 start, prev>>

\* get_instances_to_remove lines 46-58: describe_container_instances, sort,
\* slice, and return the EC2 instance ids to main line 12.
Select_Describe ==
  /\ pc = "select_46"
  /\ \E ok \in BOOLEAN :
       IF ok
       THEN /\ instances' = get_instances_to_remove(
                              Described(container_instance_arns), desired_change)
            /\ ReturnTo("drain_63")
            /\ UNCHANGED remoteFailed
       ELSE /\ RaiseClientError
            /\ UNCHANGED instances
  /\ UNCHANGED <<entry, run, remote, desired_count, desired_change,
                 container_instance_arns, computed, retries, idx, calls, listed,
                 polls, pollBusy, drained, start, prev>>

\* -------------------------------------------------------- drain_instances
\* Lines 61-69: update_container_instances_state, then retries = 30.
Drain_Request ==
  /\ pc = "drain_63"
  /\ \E ok \in BOOLEAN :
       /\ calls' = Append(calls, [op |-> "update_container_instances_state",
                                  ids |-> instances, ok |-> ok])
       /\ IF ok
          THEN /\ nodes' = SetDraining(instances)
               /\ retries' = Retries
               /\ pc' = "drain_71"
               /\ UNCHANGED <<error, errorAt, remoteFailed>>
          ELSE /\ RaiseClientError
               /\ UNCHANGED <<nodes, retries>>
  /\ UNCHANGED <<entry, run, asgCount, desiredCapacity, terminated,
                 desired_count, desired_change, container_instance_arns,
                 computed, instances, idx, listed, polls, pollBusy, drained,
                 start, prev>>

\* Line 71, and lines 84-89 when the loop condition is false.
Drain_While ==
  /\ pc = "drain_71"
  /\ IF retries > 0
     THEN /\ pc' = "drain_72"
          /\ UNCHANGED <<error, errorAt>>
     ELSE Raise("RuntimeError_DrainTimeout")
  /\ UNCHANGED <<entry, run, remote, locals, hist>>

\* Lines 72-79: one describe_container_instances poll; break returns to
\* main line 14.
Drain_Poll ==
  /\ pc = "drain_72"
  /\ polls' = polls + 1
  /\ \E ok \in BOOLEAN :
       IF ok
       THEN LET instance_descriptions == Described(instances)
            IN IF \A i \in 1..Len(instance_descriptions) :
                      instance_descriptions[i].runningTasksCount = 0
               THEN /\ drained' = TRUE
                    /\ ReturnTo("main_14")
                    /\ UNCHANGED <<pollBusy, remoteFailed>>
               ELSE /\ pollBusy' = TRUE
                    /\ pc' = "drain_81"
                    /\ UNCHANGED <<drained, error, errorAt, remoteFailed>>
       ELSE /\ RaiseClientError
            /\ UNCHANGED <<drained, pollBusy>>
  /\ UNCHANGED <<entry, run, remote, locals, calls, listed, start, prev>>

\* Lines 81-83: retries -= 1, print, sleep(10).
Drain_Sleep ==
  /\ pc = "drain_81"
  /\ retries' = retries - 1
  /\ IF NameDefined("sleep")
     THEN /\ pc' = "drain_71"
          /\ UNCHANGED <<error, errorAt>>
     ELSE Raise("NameError_sleep")
  /\ UNCHANGED <<entry, run, remote, desired_count, desired_change,
                 container_instance_arns, computed, instances, idx, hist>>

\* ------------------------------------------------------ terminate_instance
\* main line 14: the call of terminate_instances.
Main_Terminate ==
  /\ pc = "main_14"
  /\ IF NameDefined("terminate_instances")
     THEN /\ pc' = "terminate_94"
          /\ UNCHANGED <<error, errorAt>>
     ELSE Raise("NameError_terminate_instances")
  /\ UNCHANGED <<entry, run, remote, locals, hist>>

\* main lines 16-19, after terminate_instances returned: get_change again.
Main_Verify(ok) ==
  IF ok
  THEN LET r == get_change(asgCount, desiredCapacity, desired_count)
       IN /\ IF r.kind = "raise" THEN Raise(r.error)
             ELSE IF r.kind = "exit"
               THEN pc' = "Done" /\ UNCHANGED <<error, errorAt>>
             ELSE IF r.change # 0 THEN Raise("RuntimeError_Convergence")
             ELSE pc' = "Done" /\ UNCHANGED <<error, errorAt>>
          /\ UNCHANGED remoteFailed
  ELSE RaiseClientError

\* What a raised terminate call does to the for loop: nothing catches it.
Terminate_OnError_Continue == /\ idx' = idx + 1
                              /\ remoteFailed' = TRUE
                              /\ UNCHANGED <<pc, error, errorAt>>

Terminate_OnError == /\ RaiseClientError
                     /\ UNCHANGED idx

\* Lines 94-98: one iteration of the for loop, or its end.
Terminate_For ==
  /\ pc = "terminate_94"
  /\ IF idx > Len(instances)
     THEN /\ IF entry = "main"
             THEN \E ok \in BOOLEAN : Main_Verify(ok)
             ELSE /\ pc' = "Returned"
                  /\ UNCHANGED <<error, errorAt, remoteFailed>>
          /\ UNCHANGED <<desiredCapacity, terminated, idx, calls>>
     ELSE \E ok \in (IF CanTerminate(instances[idx]) THEN BOOLEAN ELSE {FALSE}) :
            /\ calls' = Append(calls,
                          [op |-> "terminate_instance_in_auto_scaling_group",
                           ids |-> <<instances[idx]>>, ok |-> ok])
            /\ IF ok
               THEN /\ desiredCapacity' = desiredCapacity - 1
                    /\ terminated' = terminated \cup {instances[idx]}
                    /\ idx' = idx + 1
                    /\ UNCHANGED <<pc, error, errorAt, remoteFailed>>
               ELSE /\ Terminate_OnError
                    /\ UNCHANGED <<desiredCapacity, terminated>>
  /\ UNCHANGED <<entry, run, asgCount, nodes, desired_count, desired_change,
                 container_instance_arns, computed, instances, retries, listed,
                 polls, pollBusy, drained, start, prev>>

\* ------------------------------------------------------------ environment
\* A task running on a container instance stops.  The script reads the task
\* counts only in the poll of line 72, so the step is taken before a poll or
\* between two invocations.
TaskStops ==
  /\ entry \in {"main", "drain_instances"}
  /\ pc \in {"drain_72", "Fatal"}
  /\ \E i \in 1..Len(nodes) :
       /\ nodes[i].runningTasksCount > 0
       /\ nodes' = [nodes EXCEPT ![i].runningTasksCount = @ - 1]
  /\ UNCHANGED <<ctl, asgCount, desiredCapacity, terminated, locals, hist>>

\* The operator runs the script again with the same arguments after a failure.
Rerun ==
  /\ entry = "main" /\ pc = "Fatal" /\ run < MaxRuns
  /\ run' = run + 1
  /\ pc' = "main_8"
  /\ prev' = [error |-> error, errorAt |-> errorAt, instances |-> instances,
              polls |-> polls]
  /\ error' = "none" /\ errorAt' = "none"
  /\ desired_change' = 0 /\ container_instance_arns' = <<>>
  /\ computed' = FALSE /\ instances' = <<>>
  /\ retries' = 0 /\ idx' = 1
  /\ calls' = <<>> /\ listed' = FALSE /\ polls' = 0
  /\ pollBusy' = FALSE /\ drained' = FALSE /\ remoteFailed' = FALSE
  /\ start' = Snapshot(desiredCapacity, nodes)
  /\ UNCHANGED <<entry, remote, desired_count>>

Next ==
  \/ Main_GetChange
  \/ Select_List
  \/ Select_Describe
  \/ Drain_Request
  \/ Drain_While
  \/ Drain_Poll
  \/ Drain_Sleep
  \/ Main_Terminate
  \/ Terminate_For
  \/ TaskStops
  \/ Rerun

Spec == Init /\ [][Next]_vars

\* ---------------------------------------------------------------- history
TerminateCalls ==
  SelectSeq(calls, LAMBDA c : c.op = "terminate_instance_in_auto_scaling_group")

\* The identifiers passed to terminate_instance_in_auto_scaling_group, in order.
TerminatedIds == [i \in 1..Len(TerminateCalls) |-> TerminateCalls[i].ids[1]]

\* The nodes a list of identifiers refers to, by either of their identities.
NodesOf(ids) ==
  { i \in 1..Len(nodes) : \/ nodes[i].containerInstanceArn \in Range(ids)
                          \/ nodes[i].ec2InstanceId \in Range(ids) }

DrainPositions == {"drain_63", "drain_71", "drain_72", "drain_81"}

\* get_instances_to_remove has returned its list in this invocation.
SelectionMade ==
  /\ entry \in {"main", "get_instances_to_remove"}
  /\ pc \in DrainPositions \cup {"main_14", "terminate_94", "Returned"}

\* ------------------------------------------------------------------ claims

\* C1: a run of main that ends in Done (exit status 0) leaves the group's
\* DesiredCapacity equal to the requested desired_count.
C1_DoneMeansConverged ==
  (entry = "main" /\ pc = "Done") => desiredCapacity = desired_count

C1_Witness ==
  /\ entry = "main" /\ pc = "Done"
  /\ desiredCapacity > 0 /\ Len(nodes) > 0

\* C2: with desired_change > 0, at least desired_change registered nodes,
\* every remote call succeeding and no poll seeing a running task, the run
\* does not fail: it ends in Done having passed each selected instance to
\* terminate_instance_in_auto_scaling_group exactly once, in order.
C2_HappyRun ==
  /\ entry = "main" /\ computed /\ desired_change > 0
  /\ Len(nodes) >= desired_change
  /\ ~remoteFailed /\ ~pollBusy

C2_HappyRunReachesDone ==
  C2_HappyRun =>
    /\ pc # "Fatal"
    /\ pc = "Done" => TerminatedIds = instances

\* C3: termination calls are issued only after the polling loop left through
\* break; and a run whose selected nodes never became idle, all remote calls
\* succeeding, ends in the drain-timeout RuntimeError with no termination call.
C3_NoTerminationWithoutDrain ==
  /\ (entry = "main" /\ TerminateCalls # <<>>) => drained
  /\ ( /\ entry \in {"main", "drain_instances"}
       /\ pc = "Fatal" /\ ~remoteFailed
       /\ errorAt \notin {"main_8", "select_42", "select_46"}
       /\ \E i \in NodesOf(instances) : nodes[i].runningTasksCount > 0 )
     => (error = "RuntimeError_DrainTimeout" /\ TerminateCalls = <<>>)

\* C4: when get_change computes a negative desired_change the run fails with
\* the "fewer than desired_count instances" ValueError and has issued no
\* mutating call: drain states and DesiredCapacity are as at the start.
C4_UnderCapacityFailsClean ==
  (entry = "main" /\ computed /\ desired_change < 0) =>
    /\ pc = "Fatal" /\ error = "ValueError_FewerInstances"
    /\ calls = <<>>
    /\ Snapshot(desiredCapacity, nodes) = start

C4_Witness ==
  /\ entry = "main" /\ computed /\ desired_change < 0
  /\ pc = "Fatal" /\ Len(nodes) > 0

\* C5: when get_change computes desired_change = 0 the run is Done at once:
\* no list_container_instances, no drain request, no termination call.
C5_ZeroChangeIsDone ==
  (entry = "main" /\ computed /\ desired_change = 0) =>
    /\ pc = "Done" /\ error = "none"
    /\ ~listed /\ polls = 0 /\ calls = <<>>
    /\ Snapshot(desiredCapacity, nodes) = start

C5_Witness ==
  /\ entry = "main" /\ computed /\ desired_change = 0
  /\ pc = "Done" /\ Len(nodes) = MaxNodes

\* C6: for a count k > 0 get_instances_to_remove returns min(k, len(nodes))
\* identifiers of distinct nodes, in ascending registeredAt order, and no
\* node left out registered before a node taken.
C6_Position(j) == CHOOSE i \in 1..Len(nodes) : nodes[i].ec2InstanceId = instances[j]

C6_OldestFirst ==
  (SelectionMade /\ desired_change > 0) =>
    /\ Len(instances) = Min(desired_change, Len(nodes))
    /\ \A j \in 1..Len(instances) :
         \E i \in 1..Len(nodes) : nodes[i].ec2InstanceId = instances[j]
    /\ \A j, l \in 1..Len(instances) : j # l => instances[j] # instances[l]
    /\ \A j \in 1..Len(instances) - 1 :
         nodes[C6_Position(j)].registeredAt <= nodes[C6_Position(j + 1)].registeredAt
    /\ \A i \in 1..Len(nodes) :
         nodes[i].ec2InstanceId \notin Range(instances) =>
           \A j \in 1..Len(instances) :
             nodes[C6_Position(j)].registeredAt <= nodes[i].registeredAt

\* Five nodes registered at t1 < ... < t5, listed out of order, and k = 2.
C6_Witness ==
  /\ SelectionMade /\ desired_change = 2
  /\ Len(nodes) = 5
  /\ [i \in 1..5 |-> nodes[i].registeredAt] = <<3, 1, 5, 2, 4>>
  /\ instances = <<Ec2(2), Ec2(4)>>

\* C7: a second run after a run that failed inside drain_instances on a
\* non-empty selection, with the nodes it had selected now idle and every
\* remote call of the second run succeeding, selects
\* the same nodes, marks no other node DRAINING and ends in Done with
\* DesiredCapacity equal to desired_count.
C7_RerunAfterDrainFailure ==
  /\ entry = "main" /\ run = 2
  /\ prev.errorAt \in DrainPositions /\ prev.instances # <<>>
  /\ ~remoteFailed
  /\ \A i \in NodesOf(prev.instances) : nodes[i].runningTasksCount = 0

C7_RerunReachesDone ==
  (C7_RerunAfterDrainFailure /\ pc \in {"Done", "Fatal"}) =>
    /\ pc = "Done" /\ desiredCapacity = desired_count
    /\ instances = prev.instances
    /\ \A i \in 1..Len(nodes) :
         nodes[i].status = "DRAINING" => i \in NodesOf(instances)

\* C8: once a poll has seen a running task, the polling loop goes on: the only
\* failure of drain_instances (remote calls succeeding) is the timeout raised
\* after all 30 polls.
C8_PollingTerminates ==
  (entry \in {"main", "drain_instances"} /\ pollBusy /\ ~remoteFailed /\ pc = "Fatal")
    => (error = "RuntimeError_DrainTimeout" /\ polls = Retries)

\* C9 as stated: terminate_instance calls the API for every instance of the
\* list even when a call failed.
C9_WholeBatchProcessed ==
  (entry = "terminate_instance" /\ pc \in {"Fatal", "Returned"}) =>
    Len(TerminateCalls) = Len(instances)

\* C9 amended: a failed terminate call is the last call of the invocation: the
\* error goes up at once and the remaining instances are not processed.
C9_FirstFailureAborts ==
  \A i \in 1..Len(calls) :
    (calls[i].op = "terminate_instance_in_auto_scaling_group" /\ ~calls[i].ok) =>
      /\ i = Len(calls)
      /\ pc = "Fatal" /\ error = "ClientError"
      /\ idx = i

\* The first of two instances fails although it could have been terminated.
C9_Witness ==
  /\ entry = "terminate_instance" /\ pc = "Fatal"
  /\ Len(instances) = 2 /\ instances[1] # instances[2]
  /\ Len(calls) = 1 /\ ~calls[1].ok
  /\ CanTerminate(instances[2])

\* C10: with fewer registered nodes than desired_change, at least one, and
\* every remote call succeeding, the run terminates exactly the registered nodes and then fails
\* at the check of main line 16 with the convergence RuntimeError.
C10_UnderFulfilmentEndsAtVerify ==
  ( /\ entry = "main" /\ computed /\ desired_change > Len(nodes)
    /\ Len(nodes) > 0
    /\ ~remoteFailed /\ pc \in {"Done", "Fatal"} )
  => /\ error = "RuntimeError_Convergence"
     /\ Len(instances) = Len(nodes)
     /\ TerminatedIds = instances

\* C11: in a run of main, the nodes marked DRAINING and the nodes a poll
\* describes are the nodes of the selection, every identifier passed to
\* update_container_instances_state is a container-instance ARN, and every
\* identifier passed to terminate_instance_in_auto_scaling_group is an EC2
\* instance id.
C11_DrainRequested ==
  /\ entry = "main" /\ ~remoteFailed
  /\ pc \in {"drain_71", "drain_72", "drain_81", "main_14"}

C11_IdentifiersMatchApi ==
  /\ entry = "main" =>
       \A n \in 1..Len(calls) : \A j \in 1..Len(calls[n].ids) :
         calls[n].ids[j][1] =
           (IF calls[n].op = "update_container_instances_state" THEN "arn" ELSE "ec2")
  /\ C11_DrainRequested =>
       /\ { i \in 1..Len(nodes) : nodes[i].status = "DRAINING" } = NodesOf(instances)
       /\ Named(instances) = NodesOf(instances)

====
